---- MODULE Spec2Model ----
(***************************************************************************)
(* A model of package rgeo (local reverse geocoding): the construction of  *)
(* an Rgeo by New, the queries ReverseGeocode, ReverseGeocodeWithGeometry  *)
(* and DatasetNames, the text rendering Location.String, and the pure      *)
(* functions that normalize a ring, convert a geometry and extract a       *)
(* Location from the properties of a feature.                              *)
(*                                                                         *)
(* Coordinates are integers (degrees).  The rings of the datasets are      *)
(* small, so the planar shoelace and crossing-number computations agree    *)
(* with the spherical ones of s2 for them and for every query point used   *)
(* here; the orientation of a loop on the sphere follows each edge the     *)
(* short way round in longitude.  Strings are TLA+ strings; an             *)
(* error is a record of its format string, its tagged arguments and the    *)
(* error it wraps.                                                         *)
(***************************************************************************)
EXTENDS Integers, Sequences, FiniteSets, TLC

(***************************************************************************)
(* Bounds of the model.                                                    *)
(***************************************************************************)
\* the largest number of dataset loaders passed to New
MaxLoaders == 2
\* the largest number of features in one dataset
MaxFeatures == 2
\* the largest number of features over all datasets of one New call
MaxShapes == 2
\* the largest number of points of a ring given to loopFromRing
MaxRingLen == 5
\* the largest number of polygons of a multipolygon given to
\* polygonFromGeometry, and the largest number of rings of all of them
MaxPolygons == 2
MaxRings == 3

(***************************************************************************)
(* Strings.                                                                *)
(***************************************************************************)
Range(s) == {s[k] : k \in DOMAIN s}

RECURSIVE SeqSum(_)
SeqSum(s) == IF s = <<>> THEN 0 ELSE Head(s) + SeqSum(Tail(s))

Reverse(s) == [k \in 1..Len(s) |-> s[Len(s) + 1 - k]]

\* the bytes dataset names are made of, and their codes
Alphabet == {"A", "B"}
ByteCode == [c \in Alphabet |-> IF c = "A" THEN 65 ELSE 66]

\* every string over Alphabet of at most three bytes
Words == {""} \cup Alphabet \cup {a \o b : a \in Alphabet, b \in Alphabet}
            \cup {a \o b \o c : a \in Alphabet, b \in Alphabet, c \in Alphabet}

HasPrefix(s, p) == \E t \in Words : p \o t = s

\* strings.Compare: bytewise lexicographic comparison
Compare(a, b) ==
    IF a = b THEN 0
    ELSE IF HasPrefix(b, a) THEN -1
    ELSE IF HasPrefix(a, b) THEN 1
    ELSE IF \E p \in Words : \E c \in Alphabet, d \in Alphabet :
               /\ ByteCode[c] < ByteCode[d]
               /\ HasPrefix(a, p \o c)
               /\ HasPrefix(b, p \o d)
         THEN -1
         ELSE 1

\* the attribute texts of the features, and what is left of them without a
\* trailing "2"
Texts == {"", "2", "2x", "Testland", "TST", "Otherland", "Kingdom of Other",
          "OT", "Europe", "Americas", "Caribbean", "Prov", "OT-P", "Shire",
          "Town", "Town2", "Town22", "County", "Parish"}

\* strings.TrimSuffix
TrimSuffix(s, suffix) ==
    IF \E t \in Texts : t \o suffix = s
    THEN CHOOSE t \in Texts : t \o suffix = s
    ELSE s

(***************************************************************************)
(* Location.                                                               *)
(***************************************************************************)
Fields == {"Country", "CountryLong", "CountryCode2", "CountryCode3",
           "Continent", "Region", "SubRegion", "Province", "ProvinceCode",
           "County", "City"}

EmptyLocation == [f \in Fields |-> ""]

\* a firstNonEmpty that lets a later non empty parameter win
RECURSIVE lastNonEmpty(_)
lastNonEmpty(s) ==
    IF s = <<>> THEN ""
    ELSE IF s[Len(s)] # "" THEN s[Len(s)]
    ELSE lastNonEmpty(SubSeq(s, 1, Len(s) - 1))

\* firstNonEmpty returns the first non empty parameter
RECURSIVE firstNonEmpty(_)
firstNonEmpty(s) ==
    IF s = <<>> THEN ""
    ELSE IF Head(s) # "" THEN Head(s)
    ELSE firstNonEmpty(Tail(s))

\* a value of a GeoJSON properties map: a JSON string, number or bool
StringValue(s) == [kind |-> "string", text |-> s]
NumberValue(s) == [kind |-> "number", text |-> s]

\* a type assertion that holds for every key that is present
AssertStringPresent(m, k) ==
    IF k \in DOMAIN m
    THEN [s |-> IF m[k].kind = "string" THEN m[k].text ELSE "", ok |-> TRUE]
    ELSE [s |-> "", ok |-> FALSE]

\* m[k].(string): the value and ok of the type assertion on a map read
AssertString(m, k) ==
    IF k \in DOMAIN m /\ m[k].kind = "string"
    THEN [s |-> m[k].text, ok |-> TRUE]
    ELSE [s |-> "", ok |-> FALSE]

RECURSIVE getPropertyString(_, _)
getPropertyString(m, keys) ==
    IF keys = <<>> THEN ""
    ELSE LET a == AssertString(m, Head(keys))
         IN  IF a.ok THEN a.s ELSE getPropertyString(m, Tail(keys))

getLocationStrings(p) ==
    LET loc == [Country      |-> getPropertyString(p, <<"ADMIN", "admin">>),
                CountryLong  |-> getPropertyString(p, <<"FORMAL_EN">>),
                CountryCode2 |-> getPropertyString(p, <<"ISO_A2">>),
                CountryCode3 |-> getPropertyString(p, <<"ISO_A3">>),
                Continent    |-> getPropertyString(p, <<"CONTINENT">>),
                Region       |-> getPropertyString(p, <<"REGION_UN">>),
                SubRegion    |-> getPropertyString(p, <<"SUBREGION">>),
                Province     |-> getPropertyString(p, <<"name">>),
                ProvinceCode |-> getPropertyString(p, <<"iso_3166_2">>),
                County       |-> "",
                City         |-> TrimSuffix(
                                   getPropertyString(p, <<"name_conve">>), "2")]
    IN  IF "TYPE" \in DOMAIN p /\ p["TYPE"] = StringValue("County")
        THEN [loc EXCEPT !.County = getPropertyString(p, <<"NAME">>)]
        ELSE loc

(***************************************************************************)
(* Errors.                                                                 *)
(***************************************************************************)
\* an error: the format string, the tagged arguments the format consumes
\* (<<"d", n>>, <<"q", s>>, <<"v", x>>) and the error wrapped by %w, if any
Error(format, args, wrapped) ==
    [format |-> format, args |-> args, wrapped |-> wrapped]

\* the nil error
NoError == Error("", <<>>, <<>>)

\* ErrLocationNotFound is returned when no country is found
ErrLocationNotFound == Error("country not found", <<>>, <<>>)

(***************************************************************************)
(* Geometry.  An orb.Point is <<lon, lat>>, an orb.Ring a sequence of      *)
(* points, an orb.Polygon a sequence of rings.  A geometry is a record of  *)
(* its type and its polygons: one for a Polygon, any number for a          *)
(* MultiPolygon, none for the other types.                                 *)
(***************************************************************************)
Polygon(rings) == [type |-> "Polygon", polygons |-> <<rings>>]
MultiPolygon(polys) == [type |-> "MultiPolygon", polygons |-> polys]
OtherGeometry(t) == [type |-> t, polygons |-> <<>>]

\* pointFromCoord: coordinates are [long, lat], an s2 point is built from
\* (lat, lng)
pointFromCoord(r) == [lat |-> r[2], lng |-> r[1]]

\* orb.Ring.Orientation: the sign of the planar shoelace area about r[0]
RECURSIVE ShoelaceFrom(_, _)
ShoelaceFrom(r, k) ==
    IF k >= Len(r) THEN 0
    ELSE ((r[k][1] - r[1][1]) * (r[k + 1][2] - r[1][2])
          - (r[k + 1][1] - r[1][1]) * (r[k][2] - r[1][2]))
         + ShoelaceFrom(r, k + 1)

Orientation(r) ==
    LET area == IF Len(r) < 2 THEN 0 ELSE ShoelaceFrom(r, 2)
    IN  IF area > 0 THEN 1 ELSE IF area < 0 THEN -1 ELSE 0

isClockwise(r) == Orientation(r) = -1

\* a loopFromRing that never reverses
loopFromRingForward(r, reverse) ==
    [vertices |-> [k \in 1..(Len(r) - 1) |-> pointFromCoord(r[k])]]

\* loopFromRing: the ring without its repeated last point, reversed on demand
loopFromRing(r, reverse) ==
    LET n == Len(r)
    IN  [vertices |-> [k \in 1..(n - 1) |->
                          pointFromCoord(IF reverse THEN r[n + 1 - k] ELSE r[k])]]

\* the difference d of two longitudes taken the short way round, as the edge
\* of a loop goes
ShortWay(d) == ((d + 180) % 360) - 180

\* twice the signed area enclosed by the vertices of a loop, lng as x, lat as
\* y, where each edge goes the short way round in longitude
LoopArea2(l) ==
    LET v == l.vertices
        n == Len(v)
        nxt(k) == IF k = n THEN 1 ELSE k + 1
    IN  SeqSum([k \in 1..n |->
                  ShortWay(v[k].lng - v[nxt(k)].lng) * (v[k].lat + v[nxt(k)].lat)])

\* s2 Loop.CapBound().Radius().Degrees() > 90: the interior, which lies to the
\* left of the vertices, is the outside of a clockwise loop
CapRadiusOver90(l) == LoopArea2(l) < 0

\* s2 Loop.Invert reverses the vertices
Invert(l) == [vertices |-> Reverse(l.vertices)]

\* the loop of one ring that passed the checks of loopSliceFromPolygon
NormalizedLoop(r) ==
    LET l == loopFromRing(r, isClockwise(r))
    IN  IF CapRadiusOver90(l) THEN Invert(l) ELSE l

RECURSIVE loopSliceFrom(_, _, _)
loopSliceFrom(p, k, loops) ==
    IF k > Len(p) THEN [loops |-> loops, err |-> NoError]
    ELSE LET r == p[k]
             n == Len(r)
         IN  IF n < 4
             THEN [loops |-> <<>>,
                   err |-> Error("can't convert ring with less than 4 points",
                                 <<>>, <<>>)]
             ELSE IF r[1] # r[n]
             THEN [loops |-> <<>>,
                   err |-> Error("last coordinate not same as first for polygon: %+v",
                                 <<<<"v", p>>>>, <<>>)]
             ELSE loopSliceFrom(p, k + 1, Append(loops, NormalizedLoop(r)))

loopSliceFromPolygon(p) == loopSliceFrom(p, 1, <<>>)

\* s2.PolygonFromLoops
PolygonFromLoops(loops) == [nil |-> FALSE, loops |-> loops]

\* the nil *s2.Polygon
NilPolygon == [nil |-> TRUE, loops |-> <<>>]

polygonFromPolygon(p) ==
    LET ls == loopSliceFromPolygon(p)
    IN  [polygon |-> PolygonFromLoops(ls.loops), err |-> ls.err]

RECURSIVE multiPolygonFrom(_, _, _)
multiPolygonFrom(p, k, loops) ==
    IF k > Len(p) THEN [polygon |-> PolygonFromLoops(loops), err |-> NoError]
    ELSE LET this == loopSliceFromPolygon(p[k])
         IN  IF this.err # NoError
             THEN [polygon |-> NilPolygon, err |-> this.err]
             ELSE multiPolygonFrom(p, k + 1, loops \o this.loops)

polygonFromMultiPolygon(p) == multiPolygonFrom(p, 1, <<>>)

\* a polygonFromGeometry that hands on what the conversion returned
polygonFromGeometryHandsOn(g) ==
    IF g.type \notin {"Polygon", "MultiPolygon"}
    THEN [polygon |-> NilPolygon,
          err |-> Error("needs Polygon or MultiPolygon", <<>>, <<>>)]
    ELSE IF g.type = "Polygon"
    THEN polygonFromPolygon(g.polygons[1])
    ELSE polygonFromMultiPolygon(g.polygons)

polygonFromGeometry(g) ==
    IF g.type \notin {"Polygon", "MultiPolygon"}
    THEN [polygon |-> NilPolygon,
          err |-> Error("needs Polygon or MultiPolygon", <<>>, <<>>)]
    ELSE LET res == IF g.type = "Polygon"
                    THEN polygonFromPolygon(g.polygons[1])
                    ELSE polygonFromMultiPolygon(g.polygons)
         IN  IF res.err # NoError
             THEN [polygon |-> NilPolygon, err |-> res.err]
             ELSE res

(***************************************************************************)
(* Containment, as the s2 index decides it under VertexModelOpen.          *)
(***************************************************************************)
\* the edge from a to b crosses the ray from pt towards greater lng
Crosses(pt, a, b) ==
    /\ (a.lat > pt.lat) # (b.lat > pt.lat)
    /\ LET dy  == b.lat - a.lat
           lhs == (pt.lng - a.lng) * dy
           rhs == (pt.lat - a.lat) * (b.lng - a.lng)
       IN  IF dy > 0 THEN lhs < rhs ELSE lhs > rhs

\* the point is inside the curve through the vertices of the loop
Encloses(l, pt) ==
    LET v == l.vertices
        n == Len(v)
        nxt(k) == IF k = n THEN 1 ELSE k + 1
    IN  Cardinality({k \in 1..n : Crosses(pt, v[k], v[nxt(k)])}) % 2 = 1

\* the interior of a loop is on the left of its vertices
LoopContains(l, pt) ==
    IF LoopArea2(l) < 0 THEN ~Encloses(l, pt) ELSE Encloses(l, pt)

\* a polygon contains the points that an odd number of its loops contain, and
\* none of its vertices
PolygonContains(poly, pt) ==
    /\ \A k \in DOMAIN poly.loops : pt \notin Range(poly.loops[k].vertices)
    /\ Cardinality({k \in DOMAIN poly.loops :
                      LoopContains(poly.loops[k], pt)}) % 2 = 1


(***************************************************************************)
(* Maps.                                                                   *)
(***************************************************************************)
EmptyMap == <<>>

MapPut(m, k, v) == [x \in (DOMAIN m) \cup {k} |-> IF x = k THEN v ELSE m[x]]

(***************************************************************************)
(* The datasets the loaders of the model produce.                          *)
(***************************************************************************)
\* the closed ring around the rectangle from (x0, y0) to (x1, y1),
\* counter-clockwise
RingCCW(x0, y0, x1, y1) ==
    << <<x0, y0>>, <<x1, y0>>, <<x1, y1>>, <<x0, y1>>, <<x0, y0>> >>

\* the same ring, clockwise
RingCW(x0, y0, x1, y1) == Reverse(RingCCW(x0, y0, x1, y1))

Feature(geometry, properties) ==
    [Geometry |-> geometry, Properties |-> properties]

FeatureTestland ==
    Feature(Polygon(<<RingCCW(0, 0, 4, 4)>>),
            [ADMIN |-> StringValue("Testland"), ISO_A3 |-> StringValue("TST")])

FeatureOther ==
    Feature(Polygon(<<RingCW(2, 2, 6, 6)>>),
            [ADMIN |-> NumberValue("7"), admin |-> StringValue("Otherland"),
             FORMAL_EN |-> StringValue("Kingdom of Other"),
             ISO_A2 |-> StringValue("OT"), CONTINENT |-> StringValue("Europe"),
             name |-> StringValue("Prov"), iso_3166_2 |-> StringValue("OT-P"),
             name_conve |-> StringValue("Town2")])

FeatureShire ==
    Feature(MultiPolygon(<< <<RingCCW(0, 0, 10, 10), RingCW(6, 6, 8, 8)>>,
                            <<RingCW(12, 12, 14, 14)>> >>),
            [TYPE |-> StringValue("County"), NAME |-> StringValue("Shire"),
             CONTINENT |-> StringValue("Americas"),
             REGION_UN |-> StringValue("Americas"),
             SUBREGION |-> StringValue("Caribbean"),
             name |-> StringValue("Parish"),
             name_conve |-> StringValue("Town22")])

\* a ring of three points
FeatureFewPoints ==
    Feature(Polygon(<< << <<0, 0>>, <<4, 0>>, <<0, 0>> >> >>),
            [ADMIN |-> StringValue("Testland")])

\* a ring whose last point is not its first
FeatureUnclosed ==
    Feature(MultiPolygon(<< <<RingCCW(0, 0, 4, 4)>>,
                            << << <<0, 0>>, <<4, 0>>, <<4, 4>>, <<0, 4>> >> >> >>),
            [ADMIN |-> StringValue("Testland")])

FeaturePoint ==
    Feature(OtherGeometry("Point"), [name |-> StringValue("Prov")])

GoodFeatures == {FeatureTestland, FeatureOther, FeatureShire}
BadFeatures == {FeatureFewPoints, FeatureUnclosed, FeaturePoint}
Features == GoodFeatures \cup BadFeatures

\* the names getFunctionName gives the loaders
DatasetNameSet == {"AB", "B"}

\* what a loader returns: bytes that are empty, that are no gzip stream, that
\* unzip to invalid JSON, that unzip to JSON followed by a corrupt stream, or
\* that unzip to a feature collection
PayloadKinds == {"empty", "badgzip", "badjson", "badclose", "ok"}

Payload(kind, features) == [kind |-> kind, features |-> features]

FeatureSeqs(n) == UNION {[1..k -> Features] : k \in 0..n}

Payloads(n) ==
    {Payload(k, <<>>) : k \in PayloadKinds \ {"ok"}}
        \cup {Payload("ok", fs) : fs \in FeatureSeqs(n)}

\* the points and the dataset names of the queries
QueryPoints == { <<3, 3>>, <<4, 4>>, <<7, 7>>, <<13, 13>> }
QueryNames == {"", "A", "AB"}

(***************************************************************************)
(* The state.                                                              *)
(***************************************************************************)
VARIABLES
    pc,         \* where New is: "datasets", "features" or "done"
    datasets,   \* the loaders New has called so far: name and payload
    i,          \* the index of the dataset loop of New
    tfc,        \* the features of dataset i that are still to be converted
    heap,       \* the s2 polygons allocated so far, by address
    index,      \* ret.index: the addresses of the shapes added, in order
    locs,       \* ret.locs: address -> Location
    geoms,      \* ret.geoms: dataset name -> (address -> geometry)
    result,     \* what New returned: r is "ret" or "nil", and the error
    call,       \* the last query: method, point and dataset name
    out,        \* what the last query returned
    sLoc,       \* the Location given to String
    sOut,       \* the text String returned
    inRing,     \* the ring given to loopFromRing
    outLoop,    \* the loop made of it
    inGeometry, \* the geometry given to polygonFromGeometry
    outPolygon, \* the polygon and the error it returned
    inProperties,   \* the properties given to getLocationStrings
    outLocation     \* the Location it returned

vars == <<pc, datasets, i, tfc, heap, index, locs, geoms, result, call, out,
          sLoc, sOut, inRing, outLoop, inGeometry, outPolygon, inProperties,
          outLocation>>

engineVars == <<heap, index, locs, geoms>>
newVars == <<pc, datasets, i, tfc, result>>
queryVars == <<call, out>>
stringVars == <<sLoc, sOut>>
ringVars == <<inRing, outLoop>>
geometryVars == <<inGeometry, outPolygon>>
propertyVars == <<inProperties, outLocation>>
pureVars == <<stringVars, ringVars, geometryVars, propertyVars>>

NilGeometry == [type |-> "", polygons |-> <<>>]

NoCall == [method |-> "", loc |-> <<0, 0>>, dataset |-> ""]
NoOut == [Location |-> EmptyLocation, Geometry |-> NilGeometry,
          names |-> <<>>, err |-> NoError]

\* no ring was given to loopFromRing
NoRing ==
    /\ inRing = <<>>
    /\ outLoop = [done |-> FALSE, vertices |-> <<>>]

\* no geometry was given to polygonFromGeometry
NoGeometry ==
    /\ inGeometry = NilGeometry
    /\ outPolygon = [done |-> FALSE, polygon |-> NilPolygon, err |-> NoError]

\* no properties were given to getLocationStrings
NoProperties ==
    /\ inProperties = EmptyMap
    /\ outLocation = [done |-> FALSE, loc |-> EmptyLocation]

Ready == pc = "done" /\ result.r = "ret"
Failed == pc = "done" /\ result.r = "nil"

Init ==
    /\ pc = "datasets"
    /\ datasets = <<>>
    /\ i = 0
    /\ tfc = <<>>
    /\ heap = <<>>
    /\ index = <<>>
    /\ locs = EmptyMap
    /\ geoms = EmptyMap
    /\ result = [r |-> "nil", err |-> NoError]
    /\ call = NoCall
    /\ out = NoOut
    /\ sLoc = EmptyLocation
    /\ sOut = ""
    /\ NoRing
    /\ NoGeometry
    /\ NoProperties

(***************************************************************************)
(* New.                                                                    *)
(***************************************************************************)
\* the error of reading the payload of dataset n, NoError if there is none
PayloadError(payload, n) ==
    CASE payload.kind = "empty" ->
             Error("no data in dataset %d", << <<"d", n>> >>, <<>>)
      [] payload.kind = "badgzip" ->
             Error("decompression failed for dataset %d: %w", << <<"d", n>> >>,
                   <<Error("gzip: invalid header", <<>>, <<>>)>>)
      [] payload.kind = "badjson" ->
             Error("invalid JSON in dataset %d: %w", << <<"d", n>> >>,
                   <<Error("unexpected EOF", <<>>, <<>>)>>)
      [] payload.kind = "badclose" ->
             Error("failed to close gzip reader for dataset %d: %w",
                   << <<"d", n>> >>,
                   <<Error("flate: corrupt input", <<>>, <<>>)>>)
      [] OTHER -> NoError

\* a Fail that returns the partly built ret along with the error
FailWithPartialRet(err) ==
    /\ pc' = "done"
    /\ result' = [r |-> "ret", err |-> err]

\* New fails: it returns nil and the error
Fail(err) ==
    /\ pc' = "done"
    /\ result' = [r |-> "nil", err |-> err]

\* an address that identifies a polygon by its loops instead of by allocation
AddressByValue(h, polygon) ==
    IF \E a \in DOMAIN h : h[a] = polygon
    THEN CHOOSE a \in DOMAIN h : h[a] = polygon
    ELSE Len(h) + 1

\* the address of the s2 polygon that a conversion allocates
NewPolygonAddress(h, polygon) == Len(h) + 1

\* one turn of the dataset loop up to the feature loop: call the loader, read
\* its payload and register its name
NextDataset(name, payload) ==
    /\ pc = "datasets"
    /\ i < MaxLoaders
    /\ Len(payload.features) <= MaxShapes - SeqSum([k \in 1..Len(datasets) |->
                                       Len(datasets[k].payload.features)])
    /\ datasets' = Append(datasets, [name |-> name, payload |-> payload])
    /\ LET err == PayloadError(payload, i)
       IN  IF err # NoError
           THEN /\ Fail(err)
                /\ UNCHANGED <<i, tfc, geoms>>
           ELSE /\ geoms' = IF name \in DOMAIN geoms THEN geoms
                            ELSE MapPut(geoms, name, EmptyMap)
                /\ IF payload.features = <<>>
                   THEN /\ i' = i + 1
                        /\ pc' = "datasets"
                   ELSE /\ i' = i
                        /\ pc' = "features"
                /\ tfc' = payload.features
                /\ UNCHANGED result
    /\ UNCHANGED <<heap, index, locs, queryVars, pureVars>>

\* one turn of the feature loop
AddFeature ==
    /\ pc = "features"
    /\ LET c == Head(tfc)
           datasetName == datasets[i + 1].name
           conv == polygonFromGeometry(c.Geometry)
           p == NewPolygonAddress(heap, conv.polygon)
       IN  IF conv.err # NoError
           THEN /\ Fail(Error("bad polygon in geometry: %w", <<>>, <<conv.err>>))
                /\ UNCHANGED <<i, tfc, engineVars>>
           ELSE /\ heap' = MapPut(heap, p, conv.polygon)
                /\ geoms' = [geoms EXCEPT ![datasetName] =
                                MapPut(geoms[datasetName], p, c.Geometry)]
                /\ index' = Append(index, p)
                /\ locs' = MapPut(locs, p, getLocationStrings(c.Properties))
                /\ tfc' = Tail(tfc)
                /\ IF Tail(tfc) = <<>>
                   THEN /\ i' = i + 1
                        /\ pc' = "datasets"
                   ELSE /\ i' = i
                        /\ pc' = "features"
                /\ UNCHANGED result
    /\ UNCHANGED <<datasets, queryVars, pureVars>>

\* the dataset loop is over: New returns ret
NewReturn ==
    /\ pc = "datasets"
    /\ pc' = "done"
    /\ result' = [r |-> "ret", err |-> NoError]
    /\ UNCHANGED <<datasets, i, tfc, engineVars, queryVars, pureVars>>

(***************************************************************************)
(* The queries.                                                            *)
(***************************************************************************)
\* r.query.ContainingShapes: the shapes of the index that contain the point,
\* in the order they were added
ContainingShapes(idx, h, pt) ==
    SelectSeq(idx, LAMBDA shape : PolygonContains(h[shape], pt))

RECURSIVE combineFrom(_, _, _)
combineFrom(lc, s, l) ==
    IF s = <<>> THEN l
    ELSE LET loc == lc[Head(s)]
         IN  combineFrom(lc, Tail(s),
                         [f \in Fields |-> firstNonEmpty(<<l[f], loc[f]>>)])

\* combineLocations combines the Locations for the given s2 Shapes
combineLocations(lc, s) == combineFrom(lc, s, EmptyLocation)

\* the last shape of res that is a key of shpGeom, 0 if there is none
RECURSIVE LastShapeIn(_, _)
LastShapeIn(res, shpGeom) ==
    IF res = <<>> THEN 0
    ELSE IF res[Len(res)] \in DOMAIN shpGeom THEN res[Len(res)]
    ELSE LastShapeIn(SubSeq(res, 1, Len(res) - 1), shpGeom)

\* the first shape of res that is a key of shpGeom, 0 if there is none
RECURSIVE FirstShapeIn(_, _)
FirstShapeIn(res, shpGeom) ==
    IF res = <<>> THEN 0
    ELSE IF Head(res) \in DOMAIN shpGeom THEN Head(res)
    ELSE FirstShapeIn(Tail(res), shpGeom)

\* a ReverseGeocode that reports a single containing shape as not found
ReverseGeocodeNeedsTwo(idx, h, lc, loc) ==
    LET res == ContainingShapes(idx, h, pointFromCoord(loc))
    IN  IF Len(res) <= 1
        THEN [NoOut EXCEPT !.err = ErrLocationNotFound]
        ELSE [NoOut EXCEPT !.Location = combineLocations(lc, res)]

ReverseGeocodeResult(idx, h, lc, loc) ==
    LET res == ContainingShapes(idx, h, pointFromCoord(loc))
    IN  IF Len(res) = 0
        THEN [NoOut EXCEPT !.err = ErrLocationNotFound]
        ELSE [NoOut EXCEPT !.Location = combineLocations(lc, res)]

\* a ReverseGeocodeWithGeometry that checks its parameter before it queries
\* the index
ParameterCheckedFirst(idx, h, lc, gm, loc, dataset) ==
    LET res == ContainingShapes(idx, h, pointFromCoord(loc))
    IN  IF dataset = ""
        THEN [NoOut EXCEPT !.err =
                 Error("missing parameter: geometry dataset", <<>>, <<>>)]
        ELSE IF dataset \notin DOMAIN gm
        THEN [NoOut EXCEPT !.err =
                 Error("dataset not found: %q", << <<"q", dataset>> >>, <<>>)]
        ELSE IF Len(res) = 0
        THEN [NoOut EXCEPT !.err = ErrLocationNotFound]
        ELSE LET shp == FirstShapeIn(res, gm[dataset])
             IN  IF shp # 0
                 THEN [NoOut EXCEPT !.Location = combineLocations(lc, res),
                                    !.Geometry = gm[dataset][shp]]
                 ELSE [NoOut EXCEPT !.err =
                          Error("no geometry found for dataset %q",
                                << <<"q", dataset>> >>, <<>>)]

ReverseGeocodeWithGeometryResult(idx, h, lc, gm, loc, dataset) ==
    LET res == ContainingShapes(idx, h, pointFromCoord(loc))
    IN  IF Len(res) = 0
        THEN [NoOut EXCEPT !.err = ErrLocationNotFound]
        ELSE IF dataset = ""
        THEN [NoOut EXCEPT !.err =
                 Error("missing parameter: geometry dataset", <<>>, <<>>)]
        ELSE IF dataset \notin DOMAIN gm
        THEN [NoOut EXCEPT !.err =
                 Error("dataset not found: %q", << <<"q", dataset>> >>, <<>>)]
        ELSE LET shp == FirstShapeIn(res, gm[dataset])
             IN  IF shp # 0
                 THEN [NoOut EXCEPT !.Location = combineLocations(lc, res),
                                    !.Geometry = gm[dataset][shp]]
                 ELSE [NoOut EXCEPT !.err =
                          Error("no geometry found for dataset %q",
                                << <<"q", dataset>> >>, <<>>)]

\* insertion sort, which sort.Slice runs on a slice of at most 12 elements
RECURSIVE InsertSorted(_, _)
InsertSorted(sorted, x) ==
    IF sorted = <<>> THEN <<x>>
    ELSE LET last == sorted[Len(sorted)]
         IN  IF Compare(x, last) < 0
             THEN Append(InsertSorted(SubSeq(sorted, 1, Len(sorted) - 1), x), last)
             ELSE Append(sorted, x)

\* a sort that leaves the names in the order of the range over the map
Unsorted(names, sorted) == sorted \o names

RECURSIVE SortNames(_, _)
SortNames(names, sorted) ==
    IF names = <<>> THEN sorted
    ELSE SortNames(Tail(names), InsertSorted(sorted, Head(names)))

\* the names of DatasetNames when the map is ranged over in the given order
DatasetNamesResult(order) == [NoOut EXCEPT !.names = SortNames(order, <<>>)]

\* the orders a range over the keys of a map can take
KeyOrders(m) ==
    {o \in [1..Cardinality(DOMAIN m) -> DOMAIN m] : Range(o) = DOMAIN m}

ReverseGeocode(loc) ==
    /\ Ready
    /\ call' = [method |-> "ReverseGeocode", loc |-> loc, dataset |-> ""]
    /\ out' = ReverseGeocodeResult(index, heap, locs, loc)
    /\ UNCHANGED <<newVars, engineVars, pureVars>>

\* a ReverseGeocodeWithGeometry that creates the group of a dataset it does
\* not find, as New does
ReverseGeocodeWithGeometryRegisters(loc, dataset) ==
    /\ Ready
    /\ call' = [method |-> "ReverseGeocodeWithGeometry", loc |-> loc,
                dataset |-> dataset]
    /\ out' = ReverseGeocodeWithGeometryResult(index, heap, locs, geoms,
                                               loc, dataset)
    /\ geoms' = IF dataset = "" \/ dataset \in DOMAIN geoms THEN geoms
                ELSE MapPut(geoms, dataset, EmptyMap)
    /\ UNCHANGED <<newVars, heap, index, locs, pureVars>>

ReverseGeocodeWithGeometry(loc, dataset) ==
    /\ Ready
    /\ call' = [method |-> "ReverseGeocodeWithGeometry", loc |-> loc,
                dataset |-> dataset]
    /\ out' = ReverseGeocodeWithGeometryResult(index, heap, locs, geoms,
                                               loc, dataset)
    /\ UNCHANGED <<newVars, engineVars, pureVars>>

DatasetNames ==
    /\ Ready
    /\ call' = [NoCall EXCEPT !.method = "DatasetNames"]
    /\ \E order \in KeyOrders(geoms) : out' = DatasetNamesResult(order)
    /\ UNCHANGED <<newVars, engineVars, pureVars>>

Next ==
    \/ \E name \in DatasetNameSet, payload \in Payloads(MaxFeatures) :
          NextDataset(name, payload)
    \/ AddFeature
    \/ NewReturn
    \/ \E loc \in QueryPoints : ReverseGeocode(loc)
    \/ \E loc \in QueryPoints, dataset \in QueryNames :
          ReverseGeocodeWithGeometry(loc, dataset)
    \/ DatasetNames

Spec == Init /\ [][Next]_vars

TypeOK ==
    /\ pc \in {"datasets", "features", "done"}
    /\ i \in 0..MaxLoaders
    /\ Len(index) <= MaxShapes
    /\ DOMAIN locs = Range(index)
    /\ DOMAIN geoms \subseteq DatasetNameSet

(***************************************************************************)
(* Location.String.                                                        *)
(***************************************************************************)
RECURSIVE Concat(_)
Concat(parts) == IF parts = <<>> THEN "" ELSE Head(parts) \o Concat(Tail(parts))

\* the strings that String appends to ret, in order
StringParts(l) ==
    LET city      == IF l.City # "" THEN <<" ", l.City, ",">> ELSE <<>>
        province  == IF l.Province # "" THEN <<" ", l.Province, ",">> ELSE <<>>
        country   == IF l.Country # "" THEN <<" ", l.Country>>
                     ELSE IF l.CountryLong # "" THEN <<" ", l.CountryLong>>
                     ELSE <<>>
        code      == IF l.CountryCode3 # "" THEN <<" (", l.CountryCode3, ")">>
                     ELSE IF l.CountryCode2 # "" THEN <<" (", l.CountryCode2, ")">>
                     ELSE <<>>
        ret       == <<"<Location>">> \o city \o province \o country \o code
        comma     == IF Len(Concat(ret)) > Len("<Location>") THEN <<",">>
                     ELSE <<>>
        continent == IF l.Continent # "" THEN <<" ", l.Continent>>
                     ELSE IF l.Region # "" THEN <<" ", l.Region>>
                     ELSE IF l.SubRegion # "" THEN <<" ", l.SubRegion>>
                     ELSE <<>>
    IN  IF l = EmptyLocation THEN <<"<Location>", " Empty Location">>
        ELSE ret \o comma \o continent

String(l) == Concat(StringParts(l))

\* the text a field of a rendered Location has when it is not empty
FieldText ==
    [Country |-> "Testland", CountryLong |-> "Kingdom of Other",
     CountryCode2 |-> "OT", CountryCode3 |-> "TST", Continent |-> "Europe",
     Region |-> "Americas", SubRegion |-> "Caribbean", Province |-> "Prov",
     ProvinceCode |-> "OT-P", County |-> "Shire", City |-> "Town"]

\* the Locations given to String: every choice of the fields that are empty
StringLocations ==
    {[f \in Fields |-> IF f \in present THEN FieldText[f] ELSE ""] :
        present \in SUBSET Fields}

InitString ==
    /\ pc = "datasets"
    /\ datasets = <<>>
    /\ i = 0
    /\ tfc = <<>>
    /\ heap = <<>>
    /\ index = <<>>
    /\ locs = EmptyMap
    /\ geoms = EmptyMap
    /\ result = [r |-> "nil", err |-> NoError]
    /\ call = NoCall
    /\ out = NoOut
    /\ sLoc \in StringLocations
    /\ sOut = ""
    /\ NoRing
    /\ NoGeometry
    /\ NoProperties

\* fmt prints the Location: sOut is the text of sLoc
Render ==
    /\ sOut = ""
    /\ sOut' = String(sLoc)
    /\ UNCHANGED <<newVars, engineVars, queryVars, sLoc, ringVars,
                   geometryVars, propertyVars>>

NextString == Render

SpecString == InitString /\ [][NextString]_vars

(***************************************************************************)
(* The normalization of one ring: lines 367 to 375 of loopSliceFromPolygon *)
(* on a ring that passed its two checks.                                   *)
(***************************************************************************)
\* the corners of a convex pentagon near the origin, and of the same pentagon
\* across the antimeridian, before longitudes over 180 are wrapped
SmallCorners == { <<0, 0>>, <<4, 0>>, <<5, 3>>, <<2, 5>>, <<-1, 3>> }
DatelineCorners == {<<c[1] + 177, c[2]>> : c \in SmallCorners}

\* the point with its longitude in -180..180
WrapPoint(c) == IF c[1] > 180 THEN <<c[1] - 360, c[2]>> ELSE c

\* the sign of the turn from a over b to c
Turn(a, b, c) ==
    LET cross == (b[1] - a[1]) * (c[2] - a[2]) - (b[2] - a[2]) * (c[1] - a[1])
    IN  IF cross > 0 THEN 1 ELSE IF cross < 0 THEN -1 ELSE 0

\* the segments from a to b and from c to d cross
SegmentsCross(a, b, c, d) ==
    /\ Turn(a, b, c) * Turn(a, b, d) < 0
    /\ Turn(c, d, a) * Turn(c, d, b) < 0

\* the closed curve through the points of open, which are corners of a convex
\* polygon, does not touch or cross itself
SimpleCurve(open) ==
    LET n == Len(open)
        nxt(k) == IF k = n THEN 1 ELSE k + 1
    IN  /\ \A j \in 1..n, k \in 1..n : j # k => open[j] # open[k]
        /\ \A j \in 1..n, k \in 1..n :
              (j < k /\ nxt(j) # k /\ nxt(k) # j) =>
                  ~SegmentsCross(open[j], open[nxt(j)], open[k], open[nxt(k)])

\* the closed rings of n points over the corners: the curve and its first
\* point again
ClosedRings(corners, n) ==
    {[k \in 1..n |-> WrapPoint(IF k = n THEN open[1] ELSE open[k])] :
        open \in {o \in [1..(n - 1) -> corners] : SimpleCurve(o)}}

\* the rings given to loopFromRing
Rings ==
    UNION {ClosedRings(SmallCorners, n) \cup ClosedRings(DatelineCorners, n) :
              n \in 4..MaxRingLen}

InitRing ==
    /\ pc = "datasets"
    /\ datasets = <<>>
    /\ i = 0
    /\ tfc = <<>>
    /\ heap = <<>>
    /\ index = <<>>
    /\ locs = EmptyMap
    /\ geoms = EmptyMap
    /\ result = [r |-> "nil", err |-> NoError]
    /\ call = NoCall
    /\ out = NoOut
    /\ sLoc = EmptyLocation
    /\ sOut = ""
    /\ inRing \in Rings
    /\ outLoop = [done |-> FALSE, vertices |-> <<>>]
    /\ NoGeometry
    /\ NoProperties

\* the ring is classified, the loop is built from it and inverted when its
\* bounding cap is wider than 90 degrees
NormalizeRing ==
    /\ ~outLoop.done
    /\ outLoop' = [done |-> TRUE, vertices |-> NormalizedLoop(inRing).vertices]
    /\ UNCHANGED <<newVars, engineVars, queryVars, stringVars, inRing,
                   geometryVars, propertyVars>>

NextRing == NormalizeRing

SpecRing == InitRing /\ [][NextRing]_vars

(***************************************************************************)
(* The conversion of one geometry: polygonFromGeometry.                    *)
(***************************************************************************)
\* a ring that converts, a closed ring of three points, a ring of four points
\* that is not closed, and a ring of three points that is not closed
RingPool ==
    { RingCW(0, 0, 4, 4),
      << <<0, 0>>, <<4, 0>>, <<0, 0>> >>,
      << <<0, 0>>, <<4, 0>>, <<4, 4>>, <<0, 4>> >>,
      << <<0, 0>>, <<4, 0>>, <<4, 4>> >> }

\* the orb.Polygons of at most b rings
PolygonsUpTo(b) == UNION {[1..k -> RingPool] : k \in 0..b}

\* the orb.MultiPolygons of at most np polygons and at most b rings in all
RECURSIVE MultiPolygonsUpTo(_, _)
MultiPolygonsUpTo(np, b) ==
    IF np = 0 THEN {<<>>}
    ELSE {<<>>} \cup
         UNION {{<<p>> \o rest : rest \in MultiPolygonsUpTo(np - 1, b - Len(p))} :
                   p \in PolygonsUpTo(b)}

\* the geometries given to polygonFromGeometry
Geometries ==
    {Polygon(p) : p \in PolygonsUpTo(MaxRings)}
        \cup {MultiPolygon(mp) : mp \in MultiPolygonsUpTo(MaxPolygons, MaxRings)}
        \cup {OtherGeometry("Point"), OtherGeometry("LineString")}

InitGeometry ==
    /\ pc = "datasets"
    /\ datasets = <<>>
    /\ i = 0
    /\ tfc = <<>>
    /\ heap = <<>>
    /\ index = <<>>
    /\ locs = EmptyMap
    /\ geoms = EmptyMap
    /\ result = [r |-> "nil", err |-> NoError]
    /\ call = NoCall
    /\ out = NoOut
    /\ sLoc = EmptyLocation
    /\ sOut = ""
    /\ NoRing
    /\ inGeometry \in Geometries
    /\ outPolygon = [done |-> FALSE, polygon |-> NilPolygon, err |-> NoError]
    /\ NoProperties

ConvertGeometry ==
    /\ ~outPolygon.done
    /\ LET res == polygonFromGeometry(inGeometry)
       IN  outPolygon' = [done |-> TRUE, polygon |-> res.polygon, err |-> res.err]
    /\ UNCHANGED <<newVars, engineVars, queryVars, stringVars, ringVars,
                   inGeometry, propertyVars>>

NextGeometry == ConvertGeometry

SpecGeometry == InitGeometry /\ [][NextGeometry]_vars

(***************************************************************************)
(* The extraction of one Location: getLocationStrings.                     *)
(***************************************************************************)
\* the mark of a key that the properties do not have
Absent == [kind |-> "absent", text |-> ""]

\* the properties with the keys that are not marked absent
Present(f) == [k \in {x \in DOMAIN f : f[x] # Absent} |-> f[k]]

\* the properties given to getLocationStrings: each key is absent or holds a
\* string or a number; seven keys of one candidate each come together
PropertyMaps ==
    {Present([ADMIN      |-> f.ADMIN,
              admin      |-> f.admin,
              ISO_A3     |-> f.ISO_A3,
              name_conve |-> f.name_conve,
              TYPE       |-> f.TYPE,
              NAME       |-> f.NAME,
              FORMAL_EN  |-> IF f.rest THEN StringValue("Kingdom of Other") ELSE Absent,
              ISO_A2     |-> IF f.rest THEN StringValue("OT") ELSE Absent,
              CONTINENT  |-> IF f.rest THEN StringValue("Europe") ELSE Absent,
              REGION_UN  |-> IF f.rest THEN StringValue("Americas") ELSE Absent,
              SUBREGION  |-> IF f.rest THEN StringValue("Caribbean") ELSE Absent,
              name       |-> IF f.rest THEN StringValue("Prov") ELSE Absent,
              iso_3166_2 |-> IF f.rest THEN StringValue("OT-P") ELSE Absent]) :
        f \in [ADMIN      : {Absent, StringValue("Testland"), NumberValue("7")},
               admin      : {Absent, StringValue("Otherland"), NumberValue("7")},
               ISO_A3     : {Absent, StringValue("TST"), NumberValue("7")},
               name_conve : {Absent, StringValue("Town"), StringValue("Town2"),
                             StringValue("Town22"), StringValue("2"),
                             NumberValue("2")},
               TYPE       : {Absent, StringValue("County"), StringValue("Parish"),
                             NumberValue("7")},
               NAME       : {Absent, StringValue("Shire"), NumberValue("7")},
               rest       : BOOLEAN]}

InitProperties ==
    /\ pc = "datasets"
    /\ datasets = <<>>
    /\ i = 0
    /\ tfc = <<>>
    /\ heap = <<>>
    /\ index = <<>>
    /\ locs = EmptyMap
    /\ geoms = EmptyMap
    /\ result = [r |-> "nil", err |-> NoError]
    /\ call = NoCall
    /\ out = NoOut
    /\ sLoc = EmptyLocation
    /\ sOut = ""
    /\ NoRing
    /\ NoGeometry
    /\ inProperties \in PropertyMaps
    /\ outLocation = [done |-> FALSE, loc |-> EmptyLocation]

ExtractLocation ==
    /\ ~outLocation.done
    /\ outLocation' = [done |-> TRUE, loc |-> getLocationStrings(inProperties)]
    /\ UNCHANGED <<newVars, engineVars, queryVars, stringVars, ringVars,
                   geometryVars, inProperties>>

NextProperties == ExtractLocation

SpecProperties == InitProperties /\ [][NextProperties]_vars

(***************************************************************************)
(* What the properties below speak of.                                     *)
(***************************************************************************)
\* the features of the datasets loaded so far, each with the name of its
\* loader, in the order New converts them
RECURSIVE LoadedFeatures(_)
LoadedFeatures(ds) ==
    IF ds = <<>> THEN <<>>
    ELSE [k \in 1..Len(Head(ds).payload.features) |->
             [name |-> Head(ds).name, feature |-> Head(ds).payload.features[k]]]
         \o LoadedFeatures(Tail(ds))

\* the names of the loaders New has called
LoaderNames == {datasets[k].name : k \in DOMAIN datasets}

\* the shapes of the index that contain the point of the last query, in the
\* order of the index
Matches == ContainingShapes(index, heap, pointFromCoord(call.loc))

\* the feature a shape of the index was converted from
Origin(shape) == LoadedFeatures(datasets)[CHOOSE k \in DOMAIN index : index[k] = shape]

\* the value of field f in the first match that has one
FirstValue(f, res) ==
    IF \E k \in DOMAIN res : locs[res[k]][f] # ""
    THEN LET first == CHOOSE k \in DOMAIN res :
                         /\ locs[res[k]][f] # ""
                         /\ \A m \in 1..(k - 1) : locs[res[m]][f] = ""
         IN  locs[res[first]][f]
    ELSE ""

MissingDatasetParameter == "missing parameter: geometry dataset"
DatasetNotFound == "dataset not found: %q"
GeometryNotFoundForDataset == "no geometry found for dataset %q"

(***************************************************************************)
(* Properties.                                                             *)
(***************************************************************************)
\* C1: when the index returns a non-empty list of matches, every field of the
\* Location that ReverseGeocode returns is the value of that field in the
\* first match, in index order, where it is not empty, and is empty when it
\* is empty in every match; a single match is returned as it is.
C1_LeftBiasedMerge ==
    (Ready /\ call.method = "ReverseGeocode" /\ Matches # <<>>) =>
        /\ \A f \in Fields : out.Location[f] = FirstValue(f, Matches)
        /\ Len(Matches) = 1 => out.Location = locs[Matches[1]]

\* a merge of several matches in which the first match wins a field that a
\* later match also has, and a later match supplies a field the first lacks
C1_Witness ==
    /\ Ready /\ call.method = "ReverseGeocode"
    /\ Len(Matches) >= 2
    /\ \E f \in Fields :
          /\ locs[Matches[1]][f] # ""
          /\ locs[Matches[2]][f] # ""
          /\ locs[Matches[1]][f] # locs[Matches[2]][f]
          /\ out.Location[f] = locs[Matches[1]][f]
    /\ \E f \in Fields :
          /\ locs[Matches[1]][f] = ""
          /\ out.Location[f] # ""

\* C2 as stated: for every point, ReverseGeocodeWithGeometry with an empty
\* dataset name returns MissingDatasetParameter, and with a non-empty name
\* that was never registered returns DatasetNotFound.
C2_AsStated ==
    (Ready /\ call.method = "ReverseGeocodeWithGeometry") =>
        /\ call.dataset = "" => out.err.format = MissingDatasetParameter
        /\ (call.dataset # "" /\ call.dataset \notin LoaderNames) =>
              out.err.format = DatasetNotFound

\* C2 amended: when at least one shape contains the point, an empty dataset
\* name gives MissingDatasetParameter and a non-empty name that was never
\* registered gives DatasetNotFound; when no shape contains the point the
\* call returns LocationNotFound whatever the dataset name is.
C2_ParameterErrors ==
    (Ready /\ call.method = "ReverseGeocodeWithGeometry") =>
        IF Matches = <<>>
        THEN out.err = ErrLocationNotFound
        ELSE /\ call.dataset = "" => out.err.format = MissingDatasetParameter
             /\ (call.dataset # "" /\ call.dataset \notin LoaderNames) =>
                   /\ out.err.format = DatasetNotFound
                   /\ out.err.args = << <<"q", call.dataset>> >>

\* an unregistered dataset name asked for at a point that shapes contain
C2_Witness ==
    /\ Ready /\ call.method = "ReverseGeocodeWithGeometry"
    /\ Matches # <<>>
    /\ call.dataset # "" /\ call.dataset \notin LoaderNames
    /\ LoaderNames # {}
    /\ out.err.format = DatasetNotFound

\* C3: with a registered dataset name and at least one match, the geometry
\* returned is the raw geometry of the first match, in index order, that came
\* from a loader of that name; matches of other datasets are skipped, and if
\* no match came from that dataset the call returns
\* GeometryNotFoundForDataset and no geometry.
C3_FirstGeometryOfDataset ==
    (/\ Ready /\ call.method = "ReverseGeocodeWithGeometry"
     /\ call.dataset \in LoaderNames /\ Matches # <<>>) =>
        LET mine == SelectSeq(Matches,
                              LAMBDA shp : Origin(shp).name = call.dataset)
        IN  IF mine # <<>>
            THEN /\ out.err = NoError
                 /\ out.Geometry = Origin(mine[1]).feature.Geometry
            ELSE /\ out.err.format = GeometryNotFoundForDataset
                 /\ out.Geometry = NilGeometry

\* the first match is of another dataset and is skipped for the second one
C3_Witness ==
    /\ Ready /\ call.method = "ReverseGeocodeWithGeometry"
    /\ Len(Matches) = 2
    /\ Origin(Matches[1]).name # call.dataset
    /\ Origin(Matches[2]).name = call.dataset
    /\ Origin(Matches[1]).feature.Geometry # Origin(Matches[2]).feature.Geometry
    /\ out.err = NoError
    /\ out.Geometry = Origin(Matches[2]).feature.Geometry

\* every loader called so far gave a payload that is not empty, unzips and
\* decodes, and every feature of it converts without error
AllLoadersGood ==
    \A k \in DOMAIN datasets :
        /\ datasets[k].payload.kind = "ok"
        /\ \A m \in DOMAIN datasets[k].payload.features :
              polygonFromGeometry(datasets[k].payload.features[m].Geometry).err
                  = NoError

NewOutcome ==
    pc = "done" =>
        /\ result.r = "ret" <=> AllLoadersGood
        /\ result.r = "ret" <=> result.err = NoError
        /\ result.r \in {"ret", "nil"}

\* C4: New returns an engine exactly when every loader and every feature is
\* good; otherwise it returns an error and no engine, whatever was indexed
\* before the failure, and a failed New never becomes Ready.
C4_AllOrNothing ==
    /\ []NewOutcome
    /\ [][Failed => (Failed' /\ result' = result)]_vars

\* New failed after shapes of earlier features were indexed and stored
C4_Witness ==
    /\ Failed
    /\ result.err # NoError
    /\ Len(index) > 0
    /\ DOMAIN locs # {}
    /\ Len(datasets) = 2

\* the error, or an error it wraps, has the number n as an argument
RECURSIVE CarriesIndex(_, _)
CarriesIndex(err, n) ==
    \/ \E k \in DOMAIN err.args : err.args[k][1] = "d" /\ err.args[k][2] = n
    \/ \E k \in DOMAIN err.wrapped : CarriesIndex(err.wrapped[k], n)

\* C5: every error New returns carries the index of the loader whose dataset
\* caused the failure.
C5_ErrorCarriesLoaderIndex ==
    Failed => CarriesIndex(result.err, Len(datasets) - 1)

\* the Location that has only a country and a three letter code
TestlandLocation ==
    [EmptyLocation EXCEPT !.Country = "Testland", !.CountryCode3 = "TST"]

\* C6: the comma before the continent, region or subregion is only written
\* with that part: a Location without the three fields does not render to a
\* text that ends in a comma, Testland (TST) renders to exactly
\* "<Location> Testland (TST)", and the empty Location to
\* "<Location> Empty Location".
C6_NoTrailingComma ==
    sOut # "" =>
        /\ (sLoc.Continent = "" /\ sLoc.Region = "" /\ sLoc.SubRegion = "") =>
              StringParts(sLoc)[Len(StringParts(sLoc))] # ","
        /\ sLoc = TestlandLocation => sOut = "<Location> Testland (TST)"
        /\ sLoc = EmptyLocation => sOut = "<Location> Empty Location"

\* C7: ReverseGeocode returns LocationNotFound and an empty Location exactly
\* when no shape of the index contains the point, and no error when a shape
\* contains it.
C7_NotFoundIffNoShape ==
    (Ready /\ call.method = "ReverseGeocode") =>
        LET contained == \E k \in DOMAIN index :
                            PolygonContains(heap[index[k]],
                                            pointFromCoord(call.loc))
        IN  /\ (out.err = ErrLocationNotFound /\ out.Location = EmptyLocation)
                  <=> ~contained
            /\ contained => out.err = NoError

\* shapes are indexed and none of them contains the point
C7_Witness ==
    /\ Ready /\ call.method = "ReverseGeocode"
    /\ Len(index) >= 2
    /\ out.err = ErrLocationNotFound
    /\ out.Location = EmptyLocation

\* the dataset names under which a shape has a geometry
GroupsOf(shape) == {n \in DOMAIN geoms : shape \in DOMAIN geoms[n]}

\* C8: after a successful New the index holds one shape per feature of the
\* loaders, with pairwise distinct handles, and every handle has a Location
\* and a raw geometry under exactly one dataset name, that of its loader.
C8_OneHandlePerFeature ==
    Ready =>
        LET loaded == LoadedFeatures(datasets)
        IN  /\ Len(index) = Len(loaded)
            /\ \A k \in DOMAIN index, m \in DOMAIN index :
                  k # m => index[k] # index[m]
            /\ DOMAIN locs = Range(index)
            /\ \A k \in DOMAIN index :
                  /\ GroupsOf(index[k]) = {loaded[k].name}
                  /\ geoms[loaded[k].name][index[k]] = loaded[k].feature.Geometry
                  /\ locs[index[k]] = getLocationStrings(loaded[k].feature.Properties)

\* the same payload was loaded twice and every copy has its own handle
C8_Witness ==
    /\ Ready
    /\ Len(datasets) = 2
    /\ datasets[1].payload = datasets[2].payload
    /\ Len(datasets[1].payload.features) >= 1
    /\ Len(index) = 2 * Len(datasets[1].payload.features)
    /\ Cardinality(Range(index)) = Len(index)

\* C9: once the engine is Ready no query changes the index, the Locations or
\* the geometries, whatever the query returns, and a query made again
\* returns what it returned before.
C9_QueriesChangeNothing ==
    [][Ready => /\ Ready'
                /\ UNCHANGED <<heap, index, locs, geoms>>
                /\ call' = call => out' = out]_vars

\* a query that failed with DatasetNotFound on an engine that holds shapes
C9_Witness ==
    /\ Ready /\ call.method = "ReverseGeocodeWithGeometry"
    /\ out.err.format = DatasetNotFound
    /\ Len(index) >= 1

\* C10: DatasetNames returns the names of the loaders, each once, in strictly
\* ascending order; the group of a name holds the features of all loaders of
\* that name, and a loader without features registers its name too.
C10_DatasetNamesSorted ==
    (Ready /\ call.method = "DatasetNames") =>
        LET loaded == LoadedFeatures(datasets)
        IN  /\ Range(out.names) = LoaderNames
            /\ \A k \in 1..(Len(out.names) - 1) :
                  Compare(out.names[k], out.names[k + 1]) < 0
            /\ out.names \in {<<>>, <<"AB">>, <<"B">>, <<"AB", "B">>}
            /\ DOMAIN geoms = LoaderNames
            /\ \A n \in LoaderNames :
                  DOMAIN geoms[n] =
                      {index[k] : k \in {m \in DOMAIN loaded : loaded[m].name = n}}

\* the loader called first has the greater name, and the other has no features
C10_Witness ==
    /\ Ready /\ call.method = "DatasetNames"
    /\ Len(datasets) = 2
    /\ datasets[1].name = "B" /\ datasets[2].name = "AB"
    /\ datasets[1].payload.features # <<>>
    /\ datasets[2].payload.features = <<>>
    /\ out.names = <<"AB", "B">>

\* the s2 point of the ring point r[k], counted from 0 as in the source
RingPoint(r, k) == [lat |-> r[k + 1][2], lng |-> r[k + 1][1]]

\* the points r[0], ..., r[n-2] of the ring, and r[n-1], r[n-2], ..., r[1]
RingForward(r) == [k \in 1..(Len(r) - 1) |-> RingPoint(r, k - 1)]
RingBackward(r) == [k \in 1..(Len(r) - 1) |-> RingPoint(r, Len(r) - k)]

\* the points the ring's classification alone asks for
RingClassified(r) == IF isClockwise(r) THEN RingBackward(r) ELSE RingForward(r)

\* C11 as stated: the normalized loop of a closed ring r of n >= 4 points has
\* n - 1 points: r[0], ..., r[n-2] in that order when the ring is not
\* classified clockwise, and r[n-1], r[n-2], ..., r[1] when it is.
C11_AsStated ==
    outLoop.done =>
        /\ Len(outLoop.vertices) = Len(inRing) - 1
        /\ ~isClockwise(inRing) => outLoop.vertices = RingForward(inRing)
        /\ isClockwise(inRing) => outLoop.vertices = RingBackward(inRing)

\* C11: the normalized loop of a closed ring r of n >= 4 points has n - 1
\* points, the ring's points without the closing one, each once.  They are in
\* the order the classification asks for (r[0], ..., r[n-2] when the ring is
\* not classified clockwise, r[n-1], r[n-2], ..., r[1] when it is) when the
\* loop built in that order has a bounding cap of at most 90 degrees, and in
\* exactly the opposite order when that cap is wider, the loop being inverted.
C11_LoopOfRing ==
    outLoop.done =>
        LET n == Len(inRing)
            v == outLoop.vertices
            built == RingClassified(inRing)
        IN  /\ Len(v) = n - 1
            /\ \A k \in 0..(n - 2) :
                  Cardinality({m \in DOMAIN v : v[m] = RingPoint(inRing, k)}) = 1
            /\ ~CapRadiusOver90([vertices |-> built]) => v = built
            /\ CapRadiusOver90([vertices |-> built]) =>
                  \A k \in 1..(n - 1) : v[k] = built[n - k]

\* a ring of five points across the antimeridian is classified clockwise, the
\* loop of its reversed points has a cap wider than 90 degrees and was
\* inverted, which leaves r[1], r[2], r[3], r[4]
C11_Witness ==
    /\ outLoop.done
    /\ Len(inRing) = 5
    /\ isClockwise(inRing)
    /\ \E k \in DOMAIN inRing : inRing[k][1] < 0
    /\ CapRadiusOver90([vertices |-> RingBackward(inRing)])
    /\ outLoop.vertices = [k \in 1..4 |-> RingPoint(inRing, k)]

\* the rings of the polygons of a geometry, in ring order
RECURSIVE RingsOf(_)
RingsOf(polys) ==
    IF polys = <<>> THEN <<>> ELSE Head(polys) \o RingsOf(Tail(polys))

AllRings(g) == RingsOf(g.polygons)

\* the ring has at least 4 points and its first and last points are equal
RingConverts(r) == Len(r) >= 4 /\ r[1] = r[Len(r)]

\* C12: the conversion of a Polygon or MultiPolygon succeeds if and only if
\* every ring of every polygon has at least 4 points and equal first and last
\* points; otherwise there is an error and no polygon, the error is that of
\* the first offending ring in ring order, too few points coming before
\* unclosed; a geometry of another type is rejected as unsupported.
C12_ConversionOutcome ==
    outPolygon.done =>
        LET rs == AllRings(inGeometry)
            bad == {k \in DOMAIN rs : ~RingConverts(rs[k])}
            first == CHOOSE k \in bad : \A m \in bad : k <= m
        IN  IF inGeometry.type \notin {"Polygon", "MultiPolygon"}
            THEN /\ outPolygon.polygon.nil
                 /\ outPolygon.err.format = "needs Polygon or MultiPolygon"
            ELSE /\ (outPolygon.err = NoError) <=> (bad = {})
                 /\ bad = {} =>
                       /\ ~outPolygon.polygon.nil
                       /\ Len(outPolygon.polygon.loops) = Len(rs)
                 /\ bad # {} =>
                       /\ outPolygon.polygon.nil
                       /\ outPolygon.err.format =
                             IF Len(rs[first]) < 4
                             THEN "can't convert ring with less than 4 points"
                             ELSE "last coordinate not same as first for polygon: %+v"

\* a multipolygon whose first offending ring has three points and is not
\* closed, after a ring that converts and before a ring of four points that
\* is not closed, was refused for too few points
C12_Witness ==
    /\ outPolygon.done
    /\ inGeometry.type = "MultiPolygon"
    /\ LET rs == AllRings(inGeometry)
       IN  /\ Len(rs) = 3
           /\ RingConverts(rs[1])
           /\ Len(rs[2]) = 3 /\ rs[2][1] # rs[2][3]
           /\ Len(rs[3]) = 4 /\ rs[3][1] # rs[3][4]
    /\ outPolygon.polygon.nil
    /\ outPolygon.err.format = "can't convert ring with less than 4 points"

\* the candidate keys of the fields that take a key's value as it is
Candidates ==
    [Country      |-> <<"ADMIN", "admin">>,
     CountryLong  |-> <<"FORMAL_EN">>,
     CountryCode2 |-> <<"ISO_A2">>,
     CountryCode3 |-> <<"ISO_A3">>,
     Continent    |-> <<"CONTINENT">>,
     Region       |-> <<"REGION_UN">>,
     SubRegion    |-> <<"SUBREGION">>,
     Province     |-> <<"name">>,
     ProvinceCode |-> <<"iso_3166_2">>]

\* the string a value holds, none when it is not a string
StringOf(v) == IF v.kind = "string" THEN v.text ELSE ""

\* the string value of the first of the keys that satisfies Take, "" when
\* none does
ValueOfFirst(p, keys, Take(_)) ==
    LET found == {k \in DOMAIN keys : Take(keys[k])}
    IN  IF found = {} THEN ""
        ELSE StringOf(p[keys[CHOOSE k \in found : \A m \in found : k <= m]])

\* C13 as stated, for the fields that take a key's value as it is: the value
\* is the string value of the first candidate key that is present in the
\* mapping, empty when none is present; a later candidate is consulted only
\* when every earlier one is absent.
C13_AsStated ==
    outLocation.done =>
        \A f \in DOMAIN Candidates :
            outLocation.loc[f] =
                LET IsPresent(k) == k \in DOMAIN inProperties
                IN  ValueOfFirst(inProperties, Candidates[f], IsPresent)

\* C13: for every field but county and city the value is the string value of
\* the first candidate key that is present with a string value, empty when
\* there is none, so a later candidate is consulted only when every earlier
\* one is absent or not a string; city is that value for "name_conve" without
\* one trailing "2"; county is that value for "NAME" when "TYPE" is the
\* string "County" and empty otherwise.
C13_FirstStringValue ==
    outLocation.done =>
        LET p == inProperties
            HasString(k) == k \in DOMAIN p /\ p[k].kind = "string"
            conve == ValueOfFirst(p, <<"name_conve">>, HasString)
            city == outLocation.loc.City
        IN  /\ \A f \in DOMAIN Candidates :
                  outLocation.loc[f] = ValueOfFirst(p, Candidates[f], HasString)
            /\ IF \E t \in Texts : t \o "2" = conve
               THEN city \o "2" = conve
               ELSE city = conve
            /\ outLocation.loc.County =
                  IF HasString("TYPE") /\ p["TYPE"].text = "County"
                  THEN ValueOfFirst(p, <<"NAME">>, HasString)
                  ELSE ""

\* "ADMIN" holds a number and "admin" a string: the country is the value of
\* "admin"; the city lost one "2" of two and the county is there
C13_Witness ==
    /\ outLocation.done
    /\ "ADMIN" \in DOMAIN inProperties
    /\ inProperties["ADMIN"].kind = "number"
    /\ "admin" \in DOMAIN inProperties
    /\ outLocation.loc.Country = "Otherland"
    /\ outLocation.loc.City = "Town2"
    /\ outLocation.loc.County = "Shire"
    /\ outLocation.loc.Province = "Prov"

====
